---- MODULE Spec2Model ----
(***************************************************************************)
(* Model of the interrupt set-up (src/kernel/idt.c, kernel/idt.h) and of   *)
(* the task list diagnostics (src/kernel/multitask.c) of fs-os.            *)
(*                                                                         *)
(* Three specifications share the variables:                               *)
(*   SpecIdt  one run of idt_init(), statement by statement;               *)
(*   SpecReg  register_isr() applied to arbitrary arguments;               *)
(*   SpecMt   the circular task list, the dispatcher and dump_task_list(). *)
(***************************************************************************)
EXTENDS Integers, Sequences, FiniteSets, TLC

VARIABLES
    idt,              \* idt[IDT_SZ], indexed 0 .. IDT_SZ-1
    oob,              \* indices of idt[] written outside the array
    panicked,         \* panic_line() was called
    descriptor,       \* idt_descriptor descriptor
    idtr,             \* the CPU's IDT register
    lidt_count,       \* number of lidt instructions executed
    iflag,            \* the CPU's interrupt flag (sti sets it)
    pic,              \* the two 8259A controllers
    events,           \* history of calls: register_isr, io_outb, idt_load, sti
    pc,               \* idt_init: index of the current phase in IdtInitProgram
    k,                \* idt_init: position inside the phase (loop variable)
    layout,           \* link-time base address of the kernel image
    live,             \* handles of the live task contexts
    next,             \* Ctx.next
    prev,             \* Ctx.prev
    mt_current_task,  \* the scheduler cursor
    dpc,              \* dump_task_list: control point
    first_ctx,        \* dump_task_list: local first_ctx
    cur_ctx,          \* dump_task_list: local cur_ctx
    i,                \* dump_task_list: local i
    out,              \* dump_task_list: contexts printed, one per line
    disturbed,        \* a timer tick moved the cursor during this dump
    ctx,              \* Ctx.stack, Ctx.esp, Ctx.cr3, Ctx.state of each handle
    trail,            \* history: the cursor's last values since the list changed
    order,            \* history: the contexts in order of creation, while
                      \* none has been removed (<<>> before mt_init and
                      \* after the first remove)
    g_width,          \* framebuffer.c: static uint32_t g_width
    g_height,         \* framebuffer.c: static uint32_t g_height
    g_fb,             \* the pixels of the framebuffer, by index
    fb_oob,           \* indexes written outside the framebuffer
    fb_call,          \* history: the last framebuffer call and its arguments
    fb_cells,         \* history: the <<cur_y, cur_x>> that call wrote
    fb_ncalls         \* history: the number of drawing calls

idtVars == <<idt, oob, panicked, descriptor, idtr, lidt_count, iflag, pic,
             events, pc, k, layout>>
histVars == <<trail, order>>
mtVars  == <<live, next, prev, mt_current_task, dpc, first_ctx, cur_ctx, i,
             out, disturbed, ctx, histVars>>
fbVars  == <<g_width, g_height, g_fb, fb_oob, fb_call, fb_cells, fb_ncalls>>
vars    == <<idtVars, mtVars, fbVars>>

-----------------------------------------------------------------------------
(* Bounds of the model *)

\* SpecReg: number of register_isr calls in one behaviour
MaxCalls == 2
\* SpecMt: number of task handles in the arena
MaxTasks == 3
\* SpecMt: lines one dump may print before the model stops following it
MaxOut == MaxTasks
MaxDim == 3
MaxFbCalls == 1

-----------------------------------------------------------------------------
(* Machine arithmetic *)

\* uint16_t wraps modulo 2^16
Pow2_16 == 2 ^ 16

RECURSIVE BitAnd(_, _)
BitAnd(a, b) ==
    IF a = 0 \/ b = 0 THEN 0
    ELSE (a % 2) * (b % 2) + 2 * BitAnd(a \div 2, b \div 2)

RECURSIVE BitOr(_, _)
BitOr(a, b) ==
    IF a = 0 THEN b
    ELSE IF b = 0 THEN a
    ELSE (IF a % 2 = 1 \/ b % 2 = 1 THEN 1 ELSE 0)
         + 2 * BitOr(a \div 2, b \div 2)

(* A uint32_t is kept as its two 16-bit halves: the value is hi * 2^16 + lo. *)
U32(hi, lo) == [hi |-> hi, lo |-> lo]

\* w + n on uint32_t, for 0 <= n < 2^16
AddU32(w, n) ==
    U32((w.hi + (w.lo + n) \div Pow2_16) % Pow2_16, (w.lo + n) % Pow2_16)

\* w & m, w | m, w >> 16 and w << 16 on uint32_t
AndU32(w, m) == U32(BitAnd(w.hi, m.hi), BitAnd(w.lo, m.lo))
OrU32(w, m)  == U32(BitOr(w.hi, m.hi), BitOr(w.lo, m.lo))
Shr16(w)     == U32(0, w.hi)
Shl16(w)     == U32(w.lo, 0)

\* the conversion of a uint32_t to uint16_t and back
ToU16(w) == w.lo
ToU32(h) == U32(0, h % Pow2_16)

\* 0xFFFF
Mask16 == U32(0, 65535)

\* a + b, a - b on uint32_t (modulo 2^32)
PlusU32(a, b) ==
    U32((a.hi + b.hi + (a.lo + b.lo) \div Pow2_16) % Pow2_16,
        (a.lo + b.lo) % Pow2_16)
MinusU32(a, b) ==
    U32((a.hi - b.hi - (IF a.lo < b.lo THEN 1 ELSE 0)) % Pow2_16,
        (a.lo - b.lo) % Pow2_16)

\* (m * n) mod 2^16 for 16-bit m, n, through the bytes of m
MulMod16(m, n) ==
    ((((m \div 256) * n) % 256) * 256 + (m % 256) * n) % Pow2_16

\* the full product of 16-bit m, n, as a uint32_t
Mul16(m, n) ==
    LET u == (m \div 256) * n
        t == (u % 256) * 256 + (m % 256) * n
    IN  U32((u \div 256 + t \div Pow2_16) % Pow2_16, t % Pow2_16)

\* a * b on uint32_t (modulo 2^32)
TimesU32(a, b) ==
    LET p == Mul16(a.lo, b.lo)
    IN  U32((p.hi + MulMod16(a.hi, b.lo) + MulMod16(a.lo, b.hi)) % Pow2_16,
            p.lo)

\* a < b, a >= b on uint32_t
LtU32(a, b) == a.hi < b.hi \/ (a.hi = b.hi /\ a.lo < b.lo)
GeU32(a, b) == ~LtU32(a, b)

ZeroU32 == U32(0, 0)
OneU32  == U32(0, 1)
MaxU32  == U32(65535, 65535)

-----------------------------------------------------------------------------
(* kernel/idt.h *)

P_BIT              == 1 * (2 ^ 7)
DPL_NONE           == 0
IDT_GATE_32BIT_INT == 14

PIC_MASTER_CMD  == 32
PIC_MASTER_DATA == 33
PIC_SLAVE_CMD   == 160
PIC_SLAVE_DATA  == 161

ICW1_ICW4   == 1
ICW1_SINGLE == 2
ICW1_INIT   == 16
ICW4_8086   == 1

\* sizeof(idt_entry): packed, 2 + 2 + 1 + 1 + 2 bytes
SizeofIdtEntry == 8

(* kernel/idt.c *)
IDT_SZ == 256

\* idt_entry idt[IDT_SZ] = { 0 }
ZeroEntry ==
    [offset_l |-> 0, selector |-> 0, zero |-> 0, type |-> 0, offset_h |-> 0]

-----------------------------------------------------------------------------
(* Link-time addresses: the handlers of idt.asm and the idt array.  The     *)
(* second base puts exc_0 and exc_1 on the two sides of a 64 KiB boundary.  *)

\* 0x00100000, 0x0010FFF0, 0xC0100000
LinkBases == {U32(16, 0), U32(16, 65520), U32(49168, 0)}

ExcAddr(n)         == AddU32(layout, 16 * n)
irq_pit            == AddU32(layout, 1024)
irq_kb             == AddU32(layout, 1040)
irq_default_master == AddU32(layout, 1056)
irq_default_slave  == AddU32(layout, 1072)
IdtBase            == AddU32(layout, 8192)

-----------------------------------------------------------------------------
(* register_isr *)

\* ((uint32_t)func) & 0xFFFF, stored in a uint16_t
OffsetLow(func) == ToU16(AndU32(func, Mask16))

\* (((uint32_t)func) >> 16) & 0xFFFF, stored in a uint16_t
OffsetHigh_NoShift(func) == ToU16(AndU32(func, Mask16))
OffsetHigh(func) == ToU16(AndU32(Shr16(func), Mask16))

\* the compound literal assigned to idt[idx]
idt_entry_DataSelector(func) ==
    [offset_l |-> OffsetLow(func),
     selector |-> 16,
     zero     |-> 0,
     type     |-> BitOr(BitOr(P_BIT, DPL_NONE), IDT_GATE_32BIT_INT),
     offset_h |-> OffsetHigh(func)]
idt_entry(func) ==
    [offset_l |-> OffsetLow(func),
     selector |-> 8,
     zero     |-> 0,
     type     |-> BitOr(BitOr(P_BIT, DPL_NONE), IDT_GATE_32BIT_INT),
     offset_h |-> OffsetHigh(func)]

IdxOutOfBounds_OffByOne(idx) == idx > IDT_SZ
IdxOutOfBounds(idx) == idx >= IDT_SZ

\* panic_line(): reports the message and halts; it does not return
panic_line == panicked' = TRUE

Event(op, a, b) == [op |-> op, a |-> a, b |-> b]

\* static void register_isr(uint16_t idx, uint32_t func)
register_isr(idx, func) ==
    /\ events' = Append(events, Event("isr", idx, func))
    /\ IF IdxOutOfBounds(idx)
         THEN /\ panic_line
              /\ UNCHANGED <<idt, oob>>
         ELSE /\ IF idx < IDT_SZ
                   THEN /\ idt' = [idt EXCEPT ![idx] = idt_entry(func)]
                        /\ oob' = oob
                   ELSE /\ oob' = oob \cup {idx}
                        /\ idt' = idt
              /\ UNCHANGED panicked

-----------------------------------------------------------------------------
(* The 8259A controllers behind the four ports.  init = 0: operational;    *)
(* init = n > 0: in initialization mode, waiting for ICWn on the data port. *)

BootPic(base) ==
    [init |-> 0, icw4 |-> FALSE, single |-> FALSE, base |-> base,
     cascade |-> 0, mode |-> 0, imr |-> 0]

\* a write to the command port: ICW1 when ICW1_INIT is set
PicCmd(c, val) ==
    IF BitAnd(val, ICW1_INIT) # 0
      THEN [c EXCEPT !.init   = 2,
                     !.icw4   = BitAnd(val, ICW1_ICW4) # 0,
                     !.single = BitAnd(val, ICW1_SINGLE) # 0,
                     !.imr    = 0]
      ELSE c

\* a write to the data port: ICW2, ICW3, ICW4 in turn, else the mask (OCW1)
PicData(c, val) ==
    CASE c.init = 2 ->
           [c EXCEPT !.base = BitAnd(val, 248),
                     !.init = IF ~c.single THEN 3
                              ELSE IF c.icw4 THEN 4 ELSE 0]
      [] c.init = 3 ->
           [c EXCEPT !.cascade = val, !.init = IF c.icw4 THEN 4 ELSE 0]
      [] c.init = 4 ->
           [c EXCEPT !.mode = val, !.init = 0]
      [] OTHER ->
           [c EXCEPT !.imr = val]

\* io_outb(port, val)
io_outb(port, val) ==
    /\ events' = Append(events, Event("outb", port, val))
    /\ pic' = CASE port = PIC_MASTER_CMD  -> [pic EXCEPT !.master = PicCmd(@, val)]
                [] port = PIC_MASTER_DATA -> [pic EXCEPT !.master = PicData(@, val)]
                [] port = PIC_SLAVE_CMD   -> [pic EXCEPT !.slave = PicCmd(@, val)]
                [] port = PIC_SLAVE_DATA  -> [pic EXCEPT !.slave = PicData(@, val)]
                [] OTHER -> pic

\* the vector on which the controllers deliver IRQ line irq (0 .. 15)
VectorOf(irq) ==
    IF irq < 8 THEN pic.master.base + irq ELSE pic.slave.base + (irq - 8)

-----------------------------------------------------------------------------
(* pic_remap: the port writes, in program order *)

PicRemapWrites_SlaveBaseToMaster ==
    << <<PIC_MASTER_CMD, BitOr(ICW1_INIT, ICW1_ICW4)>>,
       <<PIC_SLAVE_CMD, BitOr(ICW1_INIT, ICW1_ICW4)>>,
       <<PIC_MASTER_DATA, 32>>,
       <<PIC_MASTER_DATA, 40>>,
       <<PIC_MASTER_DATA, 4>>,
       <<PIC_SLAVE_DATA, 2>>,
       <<PIC_MASTER_DATA, ICW4_8086>>,
       <<PIC_SLAVE_DATA, ICW4_8086>>,
       <<PIC_MASTER_DATA, 0>>,
       <<PIC_SLAVE_DATA, 0>> >>

PicRemapWrites_CascadeFirst ==
    << <<PIC_MASTER_CMD, BitOr(ICW1_INIT, ICW1_ICW4)>>,
       <<PIC_SLAVE_CMD, BitOr(ICW1_INIT, ICW1_ICW4)>>,
       <<PIC_MASTER_DATA, 4>>,
       <<PIC_SLAVE_DATA, 2>>,
       <<PIC_MASTER_DATA, 32>>,
       <<PIC_SLAVE_DATA, 40>>,
       <<PIC_MASTER_DATA, ICW4_8086>>,
       <<PIC_SLAVE_DATA, ICW4_8086>>,
       <<PIC_MASTER_DATA, 0>>,
       <<PIC_SLAVE_DATA, 0>> >>

PicRemapWrites ==
    << <<PIC_MASTER_CMD, BitOr(ICW1_INIT, ICW1_ICW4)>>,
       <<PIC_SLAVE_CMD, BitOr(ICW1_INIT, ICW1_ICW4)>>,
       <<PIC_MASTER_DATA, 32>>,
       <<PIC_SLAVE_DATA, 40>>,
       <<PIC_MASTER_DATA, 4>>,
       <<PIC_SLAVE_DATA, 2>>,
       <<PIC_MASTER_DATA, ICW4_8086>>,
       <<PIC_SLAVE_DATA, ICW4_8086>>,
       <<PIC_MASTER_DATA, 0>>,
       <<PIC_SLAVE_DATA, 0>> >>

-----------------------------------------------------------------------------
(* idt_init *)

\* the statements of idt_init, in program order
IdtInitProgram_StiBeforeLoad ==
    <<"descriptor", "pic_remap", "exceptions", "irqs", "default_master",
      "default_slave", "sti", "idt_load">>

IdtInitProgram_TableFirst ==
    <<"descriptor", "exceptions", "irqs", "default_master", "default_slave",
      "pic_remap", "idt_load", "sti">>

IdtInitProgram ==
    <<"descriptor", "pic_remap", "exceptions", "irqs", "default_master",
      "default_slave", "idt_load", "sti">>

\* the exceptions registered one by one: exc_0 .. exc_8, exc_10 .. exc_20, exc_30
ExcVectors ==
    <<0, 1, 2, 3, 4, 5, 6, 7, 8, 10, 11, 12, 13, 14, 15, 16, 17, 18, 19, 20, 30>>

\* register_isr(32, &irq_pit); register_isr(33, &irq_kb)
IrqVectors == << <<32, irq_pit>>, <<33, irq_kb>> >>

\* for (int i = 34; i < 40; i++)
DefaultMasterCond_OffByOne(n) == n < 39
DefaultMasterCond(n) == n < 40

\* for (int i = 40; i < 48; i++)
DefaultSlaveCond(n) == n < 48

PhaseAt(p) == IF p <= Len(IdtInitProgram) THEN IdtInitProgram[p] ELSE "done"
Phase == PhaseAt(pc)

\* the first value of k in a phase: the loop variable's initial value
PhaseStart(ph) ==
    CASE ph = "default_master" -> 34
      [] ph = "default_slave"  -> 40
      [] OTHER -> 1

Advance ==
    /\ pc' = pc + 1
    /\ k' = PhaseStart(PhaseAt(pc + 1))

\* descriptor.limit = (IDT_SZ * sizeof(idt_entry)) - 1; descriptor.base = &idt[0]
\* descriptor.limit = (IDT_SZ * sizeof(idt_entry)) - 1, a uint16_t
DescriptorLimit_TableSize == (IDT_SZ * SizeofIdtEntry) % Pow2_16
DescriptorLimit == (IDT_SZ * SizeofIdtEntry - 1) % Pow2_16

SetDescriptor ==
    /\ ~panicked
    /\ Phase = "descriptor"
    /\ descriptor' = [limit |-> DescriptorLimit, base |-> IdtBase]
    /\ Advance
    /\ UNCHANGED <<idt, oob, panicked, idtr, lidt_count, iflag, pic, events,
                   layout, mtVars, fbVars>>

\* one io_outb of pic_remap()
PicRemapStep ==
    /\ ~panicked
    /\ Phase = "pic_remap"
    /\ io_outb(PicRemapWrites[k][1], PicRemapWrites[k][2])
    /\ IF k < Len(PicRemapWrites)
         THEN k' = k + 1 /\ pc' = pc
         ELSE Advance
    /\ UNCHANGED <<idt, oob, panicked, descriptor, idtr, lidt_count, iflag,
                   layout, mtVars, fbVars>>

\* register_isr(n, (uint32_t)&exc_n)
RegisterException ==
    /\ ~panicked
    /\ Phase = "exceptions"
    /\ register_isr(ExcVectors[k], ExcAddr(ExcVectors[k]))
    /\ IF k < Len(ExcVectors)
         THEN k' = k + 1 /\ pc' = pc
         ELSE Advance
    /\ UNCHANGED <<descriptor, idtr, lidt_count, iflag, pic, layout, mtVars, fbVars>>

RegisterIrq ==
    /\ ~panicked
    /\ Phase = "irqs"
    /\ register_isr(IrqVectors[k][1], IrqVectors[k][2])
    /\ IF k < Len(IrqVectors)
         THEN k' = k + 1 /\ pc' = pc
         ELSE Advance
    /\ UNCHANGED <<descriptor, idtr, lidt_count, iflag, pic, layout, mtVars, fbVars>>

\* one turn of the first loop: the test, then the body and the increment
RegisterDefaultMaster ==
    /\ ~panicked
    /\ Phase = "default_master"
    /\ IF DefaultMasterCond(k)
         THEN /\ register_isr(k, irq_default_master)
              /\ k' = k + 1
              /\ pc' = pc
         ELSE /\ Advance
              /\ UNCHANGED <<idt, oob, panicked, events>>
    /\ UNCHANGED <<descriptor, idtr, lidt_count, iflag, pic, layout, mtVars, fbVars>>

\* one turn of the second loop
RegisterDefaultSlave ==
    /\ ~panicked
    /\ Phase = "default_slave"
    /\ IF DefaultSlaveCond(k)
         THEN /\ register_isr(k, irq_default_slave)
              /\ k' = k + 1
              /\ pc' = pc
         ELSE /\ Advance
              /\ UNCHANGED <<idt, oob, panicked, events>>
    /\ UNCHANGED <<descriptor, idtr, lidt_count, iflag, pic, layout, mtVars, fbVars>>

\* idt_load(&descriptor): the lidt instruction
IdtLoad ==
    /\ ~panicked
    /\ Phase = "idt_load"
    /\ idtr' = descriptor
    /\ lidt_count' = lidt_count + 1
    /\ events' = Append(events, Event("lidt", descriptor.limit, descriptor.base))
    /\ Advance
    /\ UNCHANGED <<idt, oob, panicked, descriptor, iflag, pic, layout, mtVars, fbVars>>

\* asm("sti")
Sti ==
    /\ ~panicked
    /\ Phase = "sti"
    /\ iflag' = TRUE
    /\ events' = Append(events, Event("sti", 0, 0))
    /\ Advance
    /\ UNCHANGED <<idt, oob, panicked, descriptor, idtr, lidt_count, pic,
                   layout, mtVars, fbVars>>

-----------------------------------------------------------------------------
(* The task list *)

Handles == 1 .. MaxTasks
\* the null pointer
NULL == 0

\* a dump is between its first and its last statement
Dumping == dpc # "idle"

\* the address space of the kernel, the only one tasks are created in
KernelSpace == 1

\* the record of a free slot, and of a context just created: its own stack,
\* never suspended yet, runnable
NoCtx == [stack |-> NULL, esp |-> 0, cr3 |-> 0, state |-> 0]
NewCtx(h, as) == [stack |-> h, esp |-> 0, cr3 |-> as, state |-> 0]

\* the last n elements of a sequence
LastN(sq, n) ==
    IF Len(sq) <= n THEN sq ELSE SubSeq(sq, Len(sq) - n + 1, Len(sq))

\* mt_init(), called by kernel_main after idt_init: the kernel's own task
MtInit ==
    /\ Phase = "done"
    /\ ~panicked
    /\ live = {}
    /\ live' = {1}
    /\ next' = [next EXCEPT ![1] = 1]
    /\ prev' = [prev EXCEPT ![1] = 1]
    /\ mt_current_task' = 1
    /\ ctx' = [ctx EXCEPT ![1] = NewCtx(1, KernelSpace)]
    /\ trail' = <<1>>
    /\ order' = <<1>>
    /\ UNCHANGED <<idtVars, fbVars, dpc, first_ctx, cur_ctx, i, out, disturbed>>

\* the links after context h is inserted between c and c's successor
NextAfterInsert_Detached(c, h) ==
    [x \in Handles |-> IF x = c THEN h ELSE IF x = h THEN h ELSE next[x]]
NextAfterInsert(c, h) ==
    [x \in Handles |-> IF x = c THEN h ELSE IF x = h THEN next[c] ELSE next[x]]
PrevAfterInsert(c, h) ==
    [x \in Handles |->
        IF x = h THEN c ELSE IF x = next[c] THEN h ELSE prev[x]]

\* create(name, entry_point, address_space_id): a new context, inserted
\* next to the running task, on either side of it.  The list is not changed
\* while a dump is between two of its statements; timer ticks are.
Create ==
    /\ live # {}
    /\ ~Dumping
    /\ \E h \in Handles \ live, c \in {mt_current_task, prev[mt_current_task]} :
          /\ live' = live \cup {h}
          /\ next' = NextAfterInsert(c, h)
          /\ prev' = PrevAfterInsert(c, h)
          /\ ctx' = [ctx EXCEPT ![h] = NewCtx(h, KernelSpace)]
          /\ order' = (IF order = <<>> THEN order ELSE Append(order, h))
    /\ trail' = <<mt_current_task>>
    /\ UNCHANGED <<idtVars, fbVars, mt_current_task, dpc, first_ctx, cur_ctx, i, out,
                   disturbed>>

\* the links after context t is unlinked: its neighbours point at each other
NextAfterRemove(t) ==
    [x \in Handles |->
        IF x = t THEN NULL ELSE IF x = prev[t] THEN next[t] ELSE next[x]]
PrevAfterRemove_Stale(t) ==
    [x \in Handles |-> IF x = t THEN NULL ELSE prev[x]]
PrevAfterRemove(t) ==
    [x \in Handles |->
        IF x = t THEN NULL ELSE IF x = next[t] THEN prev[t] ELSE prev[x]]

\* the cursor after context t is removed
CursorAfterRemove_Stale(t) == mt_current_task
CursorAfterRemove(t) ==
    IF t = mt_current_task THEN next[t] ELSE mt_current_task

\* remove(task): never the last task; when the running task is removed the
\* dispatcher moves the cursor to its successor first
Remove ==
    /\ Cardinality(live) > 1
    /\ ~Dumping
    /\ \E t \in live :
          /\ live' = live \ {t}
          /\ next' = NextAfterRemove(t)
          /\ prev' = PrevAfterRemove(t)
          /\ mt_current_task' = CursorAfterRemove(t)
          /\ ctx' = [ctx EXCEPT ![t] = NoCtx]
          /\ trail' = <<CursorAfterRemove(t)>>
    /\ order' = <<>>
    /\ UNCHANGED <<idtVars, fbVars, dpc, first_ctx, cur_ctx, i, out, disturbed>>

\* the context the dispatcher switches to
TickTarget_Prev == prev[mt_current_task]
TickTarget == next[mt_current_task]

\* the timer tick: the dispatcher saves the running task's stack pointer and
\* advances the cursor
Tick ==
    /\ iflag
    /\ live # {}
    /\ ctx' = [ctx EXCEPT ![mt_current_task].esp = 1]
    /\ mt_current_task' = TickTarget
    /\ disturbed' = (disturbed \/ Dumping)
    /\ trail' = LastN(Append(trail, TickTarget), Cardinality(live) + 1)
    /\ UNCHANGED <<idtVars, fbVars, live, next, prev, dpc, first_ctx, cur_ctx, i, out,
                   order>>

-----------------------------------------------------------------------------
(* dump_task_list *)

Line(n, c) == [i |-> n, ctx |-> c]

\* puts("Dumping task list:"); int i = 0; Ctx* const first_ctx = mt_current_task
DumpStart ==
    /\ dpc = "idle"
    /\ live # {}
    /\ i' = 0
    /\ first_ctx' = mt_current_task
    /\ out' = <<>>
    /\ disturbed' = FALSE
    /\ dpc' = "print_first"
    /\ UNCHANGED <<idtVars, fbVars, live, next, prev, mt_current_task, cur_ctx, ctx,
                   histVars>>

\* printf(..., i++, first_ctx->name, ...)
DumpPrintFirst ==
    /\ dpc = "print_first"
    /\ out' = Append(out, Line(i, first_ctx))
    /\ i' = i + 1
    /\ dpc' = "loop_init"
    /\ UNCHANGED <<idtVars, fbVars, live, next, prev, mt_current_task, first_ctx,
                   cur_ctx, disturbed, ctx, histVars>>

\* for (Ctx* cur_ctx = mt_current_task; ...
DumpLoopInit ==
    /\ dpc = "loop_init"
    /\ cur_ctx' = mt_current_task
    /\ dpc' = "loop_test"
    /\ UNCHANGED <<idtVars, fbVars, live, next, prev, mt_current_task, first_ctx, i,
                   out, disturbed, ctx, histVars>>

\* ... cur_ctx->next != first_ctx; ...
DumpLoopTest_UntilSelf ==
    /\ dpc = "loop_test"
    /\ dpc' = IF next[cur_ctx] # cur_ctx THEN "loop_body" ELSE "done"
    /\ UNCHANGED <<idtVars, fbVars, live, next, prev, mt_current_task, first_ctx,
                   cur_ctx, i, out, disturbed, ctx, histVars>>
DumpLoopTest ==
    /\ dpc = "loop_test"
    /\ dpc' = IF next[cur_ctx] # first_ctx THEN "loop_body" ELSE "done"
    /\ UNCHANGED <<idtVars, fbVars, live, next, prev, mt_current_task, first_ctx,
                   cur_ctx, i, out, disturbed, ctx, histVars>>

\* the loop body: printf(..., i, cur_ctx->name, ...)
DumpLoopBody ==
    /\ dpc = "loop_body"
    /\ Len(out) < MaxOut
    /\ out' = Append(out, Line(i, cur_ctx))
    /\ dpc' = "loop_inc"
    /\ UNCHANGED <<idtVars, fbVars, live, next, prev, mt_current_task, first_ctx,
                   cur_ctx, i, disturbed, ctx, histVars>>

\* ... cur_ctx = cur_ctx->next, i++)
DumpLoopInc_MovesCursor ==
    /\ dpc = "loop_inc"
    /\ cur_ctx' = next[cur_ctx]
    /\ mt_current_task' = next[cur_ctx]
    /\ i' = i + 1
    /\ dpc' = "loop_test"
    /\ UNCHANGED <<idtVars, fbVars, live, next, prev, first_ctx, out, disturbed, ctx,
                   histVars>>
DumpLoopInc ==
    /\ dpc = "loop_inc"
    /\ cur_ctx' = next[cur_ctx]
    /\ i' = i + 1
    /\ dpc' = "loop_test"
    /\ UNCHANGED <<idtVars, fbVars, live, next, prev, mt_current_task, first_ctx,
                   out, disturbed, ctx, histVars>>

\* the function returns; its locals are gone
DumpReturn ==
    /\ dpc = "done"
    /\ dpc' = "idle"
    /\ first_ctx' = NULL
    /\ cur_ctx' = NULL
    /\ i' = 0
    /\ out' = <<>>
    /\ disturbed' = FALSE
    /\ UNCHANGED <<idtVars, fbVars, live, next, prev, mt_current_task, ctx, histVars>>

-----------------------------------------------------------------------------
(* Initial state: the kernel image as loaded, when kernel_main is entered:  *)
(* zeroed globals, interrupts off, the controllers as the firmware left     *)
(* them (bases 8 and 0x70), no task yet.                                    *)

(* ---- the framebuffer (framebuffer.c) ---- *)

Black == ZeroU32
White == U32(255, 65535)

NoFbCall ==
    [fn |-> "none", y |-> ZeroU32, x |-> ZeroU32, h |-> ZeroU32,
     w |-> ZeroU32, col |-> Black]
FbCall(fn, y, x, h, w, col) ==
    [fn |-> fn, y |-> y, x |-> x, h |-> h, w |-> w, col |-> col]

\* fb_init(fb, pitch, w, h, bpp): sets the globals and clears every pixel
FbInit ==
    /\ fb_call.fn = "none"
    /\ \E w \in 1 .. MaxDim, h \in 1 .. MaxDim :
          /\ g_width' = U32(0, w)
          /\ g_height' = U32(0, h)
          /\ g_fb' = [n \in 0 .. w * h - 1 |-> Black]
          /\ fb_call' = FbCall("init", ZeroU32, ZeroU32, U32(0, h), U32(0, w),
                               Black)
    /\ fb_cells' = {}
    /\ UNCHANGED <<idtVars, mtVars, fb_oob, fb_ncalls>>

\* g_fb[cur_y * g_width + cur_x]
FbIndex(cur_y, cur_x) == PlusU32(TimesU32(cur_y, g_width), cur_x)
InBuffer(ix) == ix.hi = 0 /\ ix.lo \in DOMAIN g_fb

\* the values of cur in: for (cur = from; cur < to; cur++)
RECURSIVE Span(_, _)
Span(from, to) ==
    IF LtU32(from, to) THEN {from} \cup Span(PlusU32(from, OneU32), to)
    ELSE {}

\* the stores g_fb[cur_y * g_width + cur_x] = col for the <<cur_y, cur_x>>
\* of cells
FbStore(cells, col) ==
    /\ g_fb' = [n \in DOMAIN g_fb |->
                  IF \E c \in cells : FbIndex(c[1], c[2]) = U32(0, n)
                    THEN col ELSE g_fb[n]]
    /\ fb_oob' = fb_oob \cup
                   {FbIndex(c[1], c[2]) : c \in {d \in cells :
                                              ~InBuffer(FbIndex(d[1], d[2]))}}
    /\ fb_cells' = cells

\* if (y >= g_height || x >= g_width) return;
OffScreen_OffByOne(y, x) == LtU32(g_height, y) \/ LtU32(g_width, x)
OffScreen(y, x) == GeU32(y, g_height) \/ GeU32(x, g_width)

\* fb_setpx_col(y, x, col)
fb_setpx_col(y, x, col) ==
    IF OffScreen(y, x) THEN FbStore({}, col) ELSE FbStore({<<y, x>>}, col)

\* if (y + h >= g_height) h = g_height - y - 1;
ClipH(y, h) ==
    IF GeU32(PlusU32(y, h), g_height)
      THEN MinusU32(MinusU32(g_height, y), OneU32) ELSE h
\* if (x + w >= g_width) w = g_width - x - 1;
ClipW(x, w) ==
    IF GeU32(PlusU32(x, w), g_width)
      THEN MinusU32(MinusU32(g_width, x), OneU32) ELSE w

\* the two loops of fb_drawrect_col, over the clipped h and w
RectCells(y, x, h, w) ==
    Span(y, PlusU32(y, ClipH(y, h))) \X Span(x, PlusU32(x, ClipW(x, w)))

\* fb_drawrect_col(y, x, h, w, col)
fb_drawrect_col(y, x, h, w, col) ==
    IF OffScreen(y, x) THEN FbStore({}, col)
    ELSE FbStore(RectCells(y, x, h, w), col)

\* the arguments tried: the screen's corners and edges, and the largest
\* uint32_t, whose sums with an origin wrap around
YSamples == {ZeroU32, MinusU32(g_height, OneU32), g_height, MaxU32}
XSamples == {ZeroU32, MinusU32(g_width, OneU32), g_width, MaxU32}
HSamples == {ZeroU32, OneU32, g_height, MaxU32}
WSamples == {ZeroU32, OneU32, g_width, MaxU32}

CallSetPx ==
    /\ fb_call.fn # "none"
    /\ fb_ncalls < MaxFbCalls
    /\ \E y \in YSamples, x \in XSamples :
          /\ fb_setpx_col(y, x, White)
          /\ fb_call' = FbCall("setpx", y, x, ZeroU32, ZeroU32, White)
    /\ fb_ncalls' = fb_ncalls + 1
    /\ UNCHANGED <<idtVars, mtVars, g_width, g_height>>

CallDrawRect ==
    /\ fb_call.fn # "none"
    /\ fb_ncalls < MaxFbCalls
    /\ \E y \in YSamples, x \in XSamples, h \in HSamples, w \in WSamples :
          /\ fb_drawrect_col(y, x, h, w, White)
          /\ fb_call' = FbCall("drawrect", y, x, h, w, White)
    /\ fb_ncalls' = fb_ncalls + 1
    /\ UNCHANGED <<idtVars, mtVars, g_width, g_height>>

Init ==
    /\ idt = [v \in 0 .. IDT_SZ - 1 |-> ZeroEntry]
    /\ oob = {}
    /\ panicked = FALSE
    /\ descriptor = [limit |-> 0, base |-> U32(0, 0)]
    /\ idtr = [limit |-> 0, base |-> U32(0, 0)]
    /\ lidt_count = 0
    /\ iflag = FALSE
    /\ pic = [master |-> BootPic(8), slave |-> BootPic(112)]
    /\ events = <<>>
    /\ pc = 1
    /\ k = PhaseStart(PhaseAt(1))
    /\ layout \in LinkBases
    /\ live = {}
    /\ next = [h \in Handles |-> NULL]
    /\ prev = [h \in Handles |-> NULL]
    /\ mt_current_task = NULL
    /\ dpc = "idle"
    /\ first_ctx = NULL
    /\ cur_ctx = NULL
    /\ i = 0
    /\ out = <<>>
    /\ disturbed = FALSE
    /\ ctx = [h \in Handles |-> NoCtx]
    /\ trail = <<>>
    /\ order = <<>>
    /\ g_width = ZeroU32
    /\ g_height = ZeroU32
    /\ g_fb = <<>>
    /\ fb_oob = {}
    /\ fb_call = NoFbCall
    /\ fb_cells = {}
    /\ fb_ncalls = 0

-----------------------------------------------------------------------------
(* SpecIdt: one run of idt_init *)

NextIdt ==
    \/ SetDescriptor
    \/ PicRemapStep
    \/ RegisterException
    \/ RegisterIrq
    \/ RegisterDefaultMaster
    \/ RegisterDefaultSlave
    \/ IdtLoad
    \/ Sti

SpecIdt == Init /\ [][NextIdt]_vars

-----------------------------------------------------------------------------
(* SpecReg: register_isr on arbitrary arguments *)

\* uint16_t idx
IdxSamples == {0, 9, 255, 256, 257, 65535}
\* uint32_t func
FuncSamples == {U32(0, 0), U32(0, 65535), U32(1, 0), U32(16, 4096),
                U32(4660, 22136), U32(32768, 1), U32(65535, 0),
                U32(65535, 65535)}

CallRegisterIsr ==
    /\ ~panicked
    /\ Len(events) < MaxCalls
    /\ \E idx \in IdxSamples, func \in FuncSamples : register_isr(idx, func)
    /\ UNCHANGED <<descriptor, idtr, lidt_count, iflag, pic, pc, k, layout,
                   mtVars, fbVars>>

NextReg == CallRegisterIsr

SpecReg == Init /\ [][NextReg]_vars

-----------------------------------------------------------------------------
(* Properties of register_isr, pic_remap and idt_init *)

LastEvent == events[Len(events)]

\* (offset_high << 16) | offset_low, decoded from a table entry
DecodeOffset(e) == OrU32(Shl16(ToU32(e.offset_h)), ToU32(e.offset_l))

\* present flag set, kernel code selector, 32-bit interrupt gate, reserved 0
GateShape(e) ==
    /\ BitAnd(e.type, 128) = 128
    /\ BitAnd(e.type, 96) = 0
    /\ BitAnd(e.type, 31) = 14
    /\ e.selector = 8
    /\ e.zero = 0

IsOutb(e) == e.op = "outb"
OutbEvents == SelectSeq(events, IsOutb)
PicRemapDone == Len(OutbEvents) = 10

(* C2: after register_isr(idx, func) with 0 <= idx < 256, the address      *)
(* decoded from entry idx, (offset_high << 16) | offset_low, equals func.  *)
C2_OffsetRoundTrip ==
    (events # <<>> /\ LastEvent.op = "isr" /\ LastEvent.a < 256)
        => DecodeOffset(idt[LastEvent.a]) = LastEvent.b

C2_Witness ==
    /\ events # <<>>
    /\ LastEvent.op = "isr"
    /\ LastEvent.a = 255
    /\ LastEvent.b = U32(4660, 22136)
    /\ ~panicked

(* C3: a call of register_isr with idx >= 256 signals the fatal condition   *)
(* (panic_line) and writes nothing: the table and the memory outside it     *)
(* are as before the call.                                                  *)
C3_OutOfRangePanicsNoWrite ==
    [][(/\ Len(events') = Len(events) + 1
        /\ events'[Len(events')].op = "isr"
        /\ events'[Len(events')].a >= 256)
          => (/\ panicked'
              /\ idt' = idt
              /\ oob' = oob
              /\ descriptor' = descriptor)]_vars

C3_Witness ==
    /\ Len(events) = 2
    /\ events[1].a < 256
    /\ LastEvent.op = "isr"
    /\ LastEvent.a = 256
    /\ panicked
    /\ oob = {}

\* the vectors idt_init is said to assign, and the handler of each
ExceptionVectors == (0 .. 8) \cup (10 .. 20) \cup {30}
AssignedVectors == ExceptionVectors \cup (32 .. 47)
HandlerOf(v) ==
    CASE v \in ExceptionVectors -> ExcAddr(v)
      [] v = 32 -> irq_pit
      [] v = 33 -> irq_kb
      [] v \in 34 .. 39 -> irq_default_master
      [] v \in 40 .. 47 -> irq_default_slave

AllAssignedRegistered ==
    \A v \in AssignedVectors :
        GateShape(idt[v]) /\ DecodeOffset(idt[v]) = HandlerOf(v)

(* C4: when idt_init has completed, vectors 0-8, 10-20 and 30 point at the  *)
(* exception handler of the same number, 32 at the timer handler, 33 at    *)
(* the keyboard handler, 34-39 at the master default handler, 40-47 at the *)
(* slave default handler, and no other vector is assigned.                 *)
C4_VectorAssignment ==
    Phase = "done" =>
        /\ AllAssignedRegistered
        /\ \A v \in (0 .. 255) \ AssignedVectors : idt[v] = ZeroEntry

C4_Witness ==
    /\ Phase = "done"
    /\ ~panicked
    /\ DecodeOffset(idt[39]) = irq_default_master
    /\ DecodeOffset(idt[40]) = irq_default_slave

(* C5: once idt_init has loaded the table and enabled interrupts, every one *)
(* of the 256 entries has the gate shape and none is all-zero.              *)
C5_EveryEntryIsAGate ==
    (iflag /\ lidt_count > 0) =>
        \A v \in 0 .. 255 : GateShape(idt[v]) /\ idt[v] # ZeroEntry

(* C6: after pic_remap the master's vector base is 32 and the slave's 40:   *)
(* IRQ 0-7 arrive on vectors 32-39, IRQ 8-15 on 40-47, the two ranges are   *)
(* disjoint and neither holds a vector in 0-31.                             *)
C6_RemappedVectorRanges ==
    PicRemapDone =>
        /\ pic.master.init = 0 /\ pic.slave.init = 0
        /\ pic.master.base = 32 /\ pic.slave.base = 40
        /\ \A irq \in 0 .. 7 : VectorOf(irq) = 32 + irq
        /\ \A irq \in 8 .. 15 : VectorOf(irq) = 40 + (irq - 8)
        /\ \A a \in 0 .. 7, b \in 8 .. 15 : VectorOf(a) # VectorOf(b)
        /\ \A irq \in 0 .. 15 : VectorOf(irq) \notin 0 .. 31

C6_Witness ==
    /\ PicRemapDone
    /\ Phase = "exceptions"
    /\ VectorOf(0) = 32
    /\ VectorOf(15) = 47

\* the writes made so far to the ports of one controller
IsMasterPort(e) == e.a \in {PIC_MASTER_CMD, PIC_MASTER_DATA}
IsSlavePort(e)  == e.a \in {PIC_SLAVE_CMD, PIC_SLAVE_DATA}
MasterWrites == SelectSeq(OutbEvents, IsMasterPort)
SlaveWrites  == SelectSeq(OutbEvents, IsSlavePort)

\* the four-word handshake of a controller, as the claim states it
Handshake(cmd, data, base, cascade) ==
    << Event("outb", cmd, 17), Event("outb", data, base),
       Event("outb", data, cascade), Event("outb", data, 1) >>

FollowsHandshake(writes, hs) ==
    \A n \in 1 .. Len(writes) : n <= 4 => writes[n] = hs[n]

\* the number of writes to the controller of port p among the first n events
WritesBefore(n, p) ==
    Cardinality({m \in 1 .. n :
        /\ events[m].op = "outb"
        /\ (events[m].a \in {PIC_MASTER_CMD, PIC_MASTER_DATA})
             = (p \in {PIC_MASTER_CMD, PIC_MASTER_DATA})})

(* C7: each controller receives, in this order and with nothing between,    *)
(* the init command word 0x11 on its command port, then on its data port   *)
(* the vector base, the cascade word (master 4, slave 2) and the 8086-mode *)
(* word; no word is left out; and any later data-port write comes after    *)
(* both controllers have received their fourth word.                       *)
C7_HandshakeOrder ==
    /\ FollowsHandshake(MasterWrites,
                        Handshake(PIC_MASTER_CMD, PIC_MASTER_DATA, 32, 4))
    /\ FollowsHandshake(SlaveWrites,
                        Handshake(PIC_SLAVE_CMD, PIC_SLAVE_DATA, 40, 2))
    /\ (\E n \in 1 .. Len(events) : events[n].op # "outb")
          => Len(MasterWrites) >= 4 /\ Len(SlaveWrites) >= 4
    /\ \A n \in 1 .. Len(events) :
          (events[n].op = "outb" /\ WritesBefore(n, events[n].a) > 4)
              => /\ WritesBefore(n - 1, PIC_MASTER_DATA) >= 4
                 /\ WritesBefore(n - 1, PIC_SLAVE_DATA) >= 4

C7_Witness ==
    /\ Len(MasterWrites) = 5
    /\ Len(SlaveWrites) = 5
    /\ pic.master.imr = 0
    /\ pic.master.mode = 1
    /\ pic.slave.cascade = 2

PicsRemapped ==
    /\ pic.master.init = 0 /\ pic.slave.init = 0
    /\ pic.master.base = 32 /\ pic.slave.base = 40

(* C8: in every state in which interrupts are enabled, all the vectors      *)
(* idt_init assigns are registered, the controllers are remapped and the   *)
(* table descriptor has been loaded into the CPU.                          *)
C8_InterruptsEnabledLast ==
    iflag =>
        /\ AllAssignedRegistered
        /\ PicsRemapped
        /\ lidt_count >= 1
        /\ idtr = [limit |-> 2047, base |-> IdtBase]

C8_Witness ==
    /\ iflag
    /\ Phase = "done"
    /\ LastEvent.op = "sti"

(* C9, as stated: every register_isr write precedes the first controller    *)
(* port write, and every controller port write precedes sti.               *)
C9_TableBeforeRemap ==
    \A a, b \in 1 .. Len(events) :
        /\ (events[a].op = "isr" /\ events[b].op = "outb") => a < b
        /\ (events[a].op = "outb" /\ events[b].op = "sti") => a < b

(* C9, amended: the controller is remapped before the table is built and    *)
(* the table is built before interrupts are enabled: every controller port *)
(* write precedes the first register_isr write, and every register_isr     *)
(* write precedes sti.                                                     *)
C9_RemapBeforeTable ==
    \A a, b \in 1 .. Len(events) :
        /\ (events[a].op = "outb" /\ events[b].op = "isr") => a < b
        /\ (events[a].op = "isr" /\ events[b].op = "sti") => a < b

C9_Witness ==
    /\ Phase = "done"
    /\ events[1].op = "outb"
    /\ \E b \in 1 .. Len(events) : events[b].op = "isr"
    /\ LastEvent.op = "sti"

-----------------------------------------------------------------------------
(* SpecMt: kernel_main runs idt_init, then multitasking starts *)

NextMt ==
    \/ NextIdt
    \/ MtInit
    \/ Create
    \/ Remove
    \/ Tick
    \/ DumpStart
    \/ DumpPrintFirst
    \/ DumpLoopInit
    \/ DumpLoopTest
    \/ DumpLoopBody
    \/ DumpLoopInc
    \/ DumpReturn

\* the kernel is linked at 1 MiB
InitMt == Init /\ layout = U32(16, 0)

SpecMt == InitMt /\ [][NextMt]_vars

NextFb ==
    \/ FbInit
    \/ CallSetPx
    \/ CallDrawRect

SpecFb == InitMt /\ [][NextFb]_vars

\* the statements of dump_task_list between its first read and its return:
\* the task that called it keeps being scheduled, so they are taken
DumpStep ==
    \/ DumpPrintFirst
    \/ DumpLoopInit
    \/ DumpLoopTest
    \/ DumpLoopBody
    \/ DumpLoopInc

SpecMtFair == SpecMt /\ WF_vars(DumpStep)

-----------------------------------------------------------------------------
(* Properties of the task list and of dump_task_list *)

\* the context reached from c by following next n times
RECURSIVE NextIter(_, _)
NextIter(c, n) ==
    IF n = 0 \/ c \notin Handles THEN c ELSE NextIter(next[c], n - 1)

RECURSIVE PrevIter(_, _)
PrevIter(c, n) ==
    IF n = 0 \/ c \notin Handles THEN c ELSE PrevIter(prev[c], n - 1)

NLive == Cardinality(live)

\* the list is well formed: circular through exactly the live contexts
Circular ==
    \A t \in live :
        /\ next[t] \in live /\ prev[t] \in live
        /\ prev[next[t]] = t /\ next[prev[t]] = t
        /\ NextIter(t, NLive) = t
        /\ \A n \in 1 .. NLive - 1 : NextIter(t, n) # t
        /\ {NextIter(t, n) : n \in 0 .. NLive - 1} = live
        /\ \A n \in 0 .. NLive : PrevIter(NextIter(t, n), n) = t

\* the contexts a dump should print: every live one, in next-order, from the
\* running task
ExpectedDump == [n \in 1 .. NLive |-> NextIter(mt_current_task, n - 1)]

PrintedCtxs == [n \in 1 .. Len(out) |-> out[n].ctx]

(* C1: on a well-formed list of N >= 1 tasks, a dump that nothing           *)
(* interrupts prints exactly N lines, one per live task, in next-order,     *)
(* the first being the line of current_task.                                *)
C1_DumpListsEveryTaskOnce ==
    (dpc = "done" /\ ~disturbed /\ Circular /\ mt_current_task \in live)
        => /\ Len(out) = NLive
           /\ PrintedCtxs = ExpectedDump
           /\ out[1].ctx = mt_current_task

(* C10: after any sequence of create and remove that leaves a task, walking *)
(* next from any live task returns to it after exactly N steps, not before, *)
(* through every live task once, and prev and next are mutual inverses.     *)
C10_ListIsCircular ==
    live # {} => Circular

C10_Witness ==
    /\ live = {2, 3}
    /\ next[2] = 3 /\ next[3] = 2
    /\ prev[2] = 3 /\ prev[3] = 2
    /\ next[1] = NULL

\* the cursor values of the ticks recorded since the list last changed
TrailSet(n) == {trail[j] : j \in 1 .. n}

(* C11: with N live tasks and no create or remove in between, each timer    *)
(* tick moves current_task to current_task.next, the tasks that are current *)
(* during N consecutive ticks are the N live tasks, each once, and after    *)
(* exactly N ticks current_task is the task it started from.                *)
C11_RoundRobin ==
    live # {} =>
        /\ Len(trail) \in 1 .. NLive + 1
        /\ trail[Len(trail)] = mt_current_task
        /\ \A j \in 1 .. Len(trail) - 1 : trail[j + 1] = next[trail[j]]
        /\ \A j, m \in 1 .. Len(trail) :
              (j < m /\ trail[j] = trail[m]) => (j = 1 /\ m = NLive + 1)
        /\ Len(trail) = NLive + 1 =>
              /\ trail[NLive + 1] = trail[1]
              /\ TrailSet(NLive) = live

C11_Witness ==
    /\ NLive = 3
    /\ Len(trail) = 4
    /\ trail[4] = trail[1]
    /\ order = <<1, 2, 3>>

OrderSucc(j) == order[(j % Len(order)) + 1]

(* C13 as stated: with only creates and ticks, successive ticks visit the   *)
(* live tasks in the cyclic order in which they were created, so the next   *)
(* link of each task is the task created after it.                          *)
C13_CreationOrderRotation ==
    order # <<>> => \A j \in 1 .. Len(order) : next[order[j]] = OrderSucc(j)

(* C13 amended: the dispatcher rotates in list order.  A create puts the    *)
(* new task next to the running task, on one side of it, and leaves the     *)
(* cyclic order of the other tasks as it was; a tick moves current_task to  *)
(* its next link and changes no link.                                       *)
C13_ListOrderRotation ==
    [][ /\ (live # {} /\ live' # live /\ live \subseteq live') =>
            \E h \in live' \ live :
                /\ live' = live \cup {h}
                /\ mt_current_task' = mt_current_task
                /\ \/ next'[mt_current_task] = h
                   \/ next'[h] = mt_current_task
                /\ \A t \in live :
                      \/ next'[t] = next[t]
                      \/ next'[t] = h /\ next'[h] = next[t]
        /\ (live' = live /\ mt_current_task' # mt_current_task) =>
                /\ mt_current_task' = next[mt_current_task]
                /\ next' = next /\ prev' = prev
      ]_vars

C13_Witness ==
    /\ order = <<1, 2, 3>>
    /\ next[1] = 3 /\ next[3] = 2 /\ next[2] = 1
    /\ trail = <<1, 3, 2, 1>>

(* C14 as stated: every read of current_task or of a prev/next link happens *)
(* with interrupt delivery suppressed; while dump_task_list is between its  *)
(* reads the interrupt flag is clear and no timer tick has run.             *)
C14_DumpReadsWithInterruptsOff ==
    Dumping => (~iflag /\ ~disturbed)

\* a step of dump_task_list: its position or one of its locals changes
DumpActs ==
    \/ dpc' # dpc
    \/ first_ctx' # first_ctx
    \/ cur_ctx' # cur_ctx
    \/ i' # i
    \/ out' # out

(* C15: dump_task_list is read-only: none of its steps changes             *)
(* current_task, the set of live tasks, or any task's prev, next, stack    *)
(* base, saved stack pointer, address-space id or state.                   *)
C15_DumpIsReadOnly ==
    [][DumpActs => UNCHANGED <<mt_current_task, live, next, prev, ctx>>]_vars

C15_Witness ==
    /\ dpc = "done"
    /\ NLive = 3
    /\ Len(out) = 3
    /\ ~disturbed
    /\ \E t \in live : ctx[t].esp = 1

\* the contexts the loop of dump_task_list has printed
LoopPrinted == {out[n].ctx : n \in 2 .. Len(out)}

\* inside the loop: next was followed i - 1 times, at most N - 1; the node
\* the loop is at was not visited before; the loop ends at the node whose
\* next is the starting node
LoopBounded ==
    dpc \in {"loop_test", "loop_body", "loop_inc", "done"} =>
        /\ i - 1 <= NLive - 1
        /\ Cardinality(LoopPrinted) = Len(out) - 1
        /\ dpc # "loop_inc" => cur_ctx \notin LoopPrinted
        /\ dpc = "done" => next[cur_ctx] = first_ctx

(* C18: on a circular list of N >= 1 tasks that is not changed meanwhile,   *)
(* dump_task_list terminates: its loop follows next at most N - 1 times, no *)
(* node is visited twice inside the loop, and it stops at the node whose    *)
(* next is the starting node.                                               *)
C18_DumpTerminates ==
    /\ []LoopBounded
    /\ (dpc = "print_first") ~> (dpc = "done")

C18_Witness ==
    /\ dpc = "done"
    /\ NLive = 3
    /\ i = 3
    /\ ~disturbed
    /\ cur_ctx = prev[first_ctx]
    /\ next[cur_ctx] = first_ctx

\* the privileged table loads executed so far
LidtEvents == SelectSeq(events, LAMBDA e : e.op = "lidt")

(* C16: idt_init executes the privileged table load exactly once; at that   *)
(* moment the descriptor holds limit 256 * 8 - 1 = 2047 and base = address  *)
(* of entry 0 of the table; the descriptor is not changed afterwards.       *)
C16_SingleLoadOfFullTable ==
    /\ lidt_count = Len(LidtEvents)
    /\ lidt_count <= 1
    /\ Phase \in {"sti", "done"} => lidt_count = 1
    /\ lidt_count = 1 =>
          /\ LidtEvents[1].a = 2047
          /\ LidtEvents[1].b = IdtBase
          /\ idtr = [limit |-> 2047, base |-> IdtBase]
          /\ descriptor = [limit |-> 2047, base |-> IdtBase]

C16_Witness ==
    /\ Phase = "done"
    /\ lidt_count = 1
    /\ Len(LidtEvents) = 1
    /\ descriptor.limit = 2047
    /\ descriptor.base = IdtBase

\* a step that is a call register_isr(idx, func) with a valid index
ValidRegisterCall ==
    /\ Len(events') = Len(events) + 1
    /\ events'[Len(events')].op = "isr"
    /\ events'[Len(events')].a < 256

(* C17: for every valid index i, register_isr(i, addr) writes entry i with  *)
(* selector 0x08, attributes 0x8E (present, privilege 0, 32-bit interrupt   *)
(* gate) and reserved byte 0, and leaves every other entry of the table     *)
(* unchanged.                                                               *)
C17_RegisterWritesOnlyEntry ==
    [][ValidRegisterCall =>
          LET idx == events'[Len(events')].a IN
              /\ idt'[idx].selector = 8
              /\ idt'[idx].type = 142
              /\ idt'[idx].zero = 0
              /\ \A j \in DOMAIN idt : j # idx => idt'[j] = idt[j]
              /\ DOMAIN idt' = DOMAIN idt
              /\ oob' = oob
       ]_vars

C17_Witness ==
    /\ Len(events) = 2
    /\ events[1].op = "isr" /\ events[1].a = 255
    /\ events[2].op = "isr" /\ events[2].a = 9
    /\ idt[255] = idt_entry(events[1].b)
    /\ idt[9].type = 142 /\ idt[9].selector = 8
    /\ idt[0] = ZeroEntry
    /\ events[1].b # U32(0, 0)

\* the last call was fb_drawrect_col with its origin on the screen
RectOnScreen ==
    /\ fb_call.fn = "drawrect"
    /\ LtU32(fb_call.y, g_height)
    /\ LtU32(fb_call.x, g_width)

\* row r and column c lie in the rectangle of the last call: y <= r < y + h
\* and x <= c < x + w, the sums taken without wrap-around
InRect(r, c) ==
    /\ fb_call.y.lo <= r /\ LtU32(U32(0, r - fb_call.y.lo), fb_call.h)
    /\ fb_call.x.lo <= c /\ LtU32(U32(0, c - fb_call.x.lo), fb_call.w)

(* C19 as stated: fb_drawrect_col(y, x, h, w, col) with an on-screen origin *)
(* sets to col every pixel (r, c) with y <= r < min(y + h, height) and      *)
(* x <= c < min(x + w, width), the last on-screen row and column included.  *)
C19_RectClippedToScreen ==
    RectOnScreen =>
        \A r \in 0 .. g_height.lo - 1, c \in 0 .. g_width.lo - 1 :
            InRect(r, c) => g_fb[r * g_width.lo + c] = fb_call.col

\* the origin of the last drawing call is off the screen
OriginOff ==
    /\ fb_call.fn \in {"setpx", "drawrect"}
    /\ GeU32(fb_call.y, g_height) \/ GeU32(fb_call.x, g_width)

(* C20: for all 32-bit y, x, h, w, also when y + h or x + w wraps around,   *)
(* fb_setpx_col and fb_drawrect_col store only to cells with row < height   *)
(* and column < width (index < width * height), and store nothing when the  *)
(* origin is off the screen.                                                *)
C20_WritesStayOnScreen ==
    /\ fb_oob = {}
    /\ \A c \in fb_cells :
          /\ LtU32(c[1], g_height)
          /\ LtU32(c[2], g_width)
          /\ LtU32(FbIndex(c[1], c[2]), TimesU32(g_width, g_height))
    /\ OriginOff => fb_cells = {}
    /\ (OriginOff /\ fb_ncalls = 1) => \A n \in DOMAIN g_fb : g_fb[n] = Black

C20_Witness ==
    /\ RectOnScreen
    /\ fb_call.y = OneU32
    /\ fb_call.h = MaxU32
    /\ PlusU32(fb_call.y, fb_call.h) = ZeroU32
    /\ fb_call.w = OneU32
    /\ fb_cells = {}
    /\ fb_oob = {}

====
